---------------------------- MODULE Spec2Model ----------------------------
(***************************************************************************)
(* A model of lib/utils.py of faceswap: rotate_landmarks, add_alpha_channel,*)
(* get_image_paths / get_folder and safe_shutdown.                         *)
(*                                                                         *)
(* Python objects live in a heap (address -> object) so that "the same     *)
(* object, mutated in place" and "a new object" are different states.      *)
(* Numbers are exact: an inverted affine matrix is a matrix of integer     *)
(* numerators over one denominator (its determinant), and cv2.transform on *)
(* int32 points rounds each coordinate to the nearest integer, ties to     *)
(* even (cvRound).  The matrices drawn have determinant 0, +-1 or +-2, for *)
(* which the double arithmetic of OpenCV is exact as well.                 *)
(***************************************************************************)
EXTENDS Integers, Sequences, FiniteSets, TLC

VARIABLES
    pc,               \* the function about to be called, "<name>_done" after it;
                      \* in safe_shutdown, the statement it is at
    outcome,          \* what the call did: a return value or a raised exception
    heap,             \* rotate_landmarks: address -> Python object
    rotation_matrix,  \* rotate_landmarks: the 2x3 matrix argument
    face_in,          \* rotate_landmarks: the argument object as it was at the call
    image,            \* add_alpha_channel: the image argument
    intensity,        \* add_alpha_channel: the intensity argument
    directory,        \* get_image_paths: the path argument
    fs,               \* get_image_paths: the file system
    log_queue,        \* safe_shutdown: queue_manager._log_queue
    consumer_alive,   \* safe_shutdown: a consumer of the log queue is running
    produced,         \* safe_shutdown: log records put by the rest of the program
    fail_at,          \* safe_shutdown: the collaborator call that raises, if any
    calls,            \* safe_shutdown: the collaborator calls made so far
    sentinel_taken    \* safe_shutdown: the consumer has removed the None sentinel

callVars == <<pc, outcome>>
rotateVars == <<heap, rotation_matrix, face_in>>
alphaVars == <<image, intensity>>
pathsVars == <<directory, fs>>
shutdownVars == <<log_queue, consumer_alive, produced, fail_at, calls, sentinel_taken>>
vars == <<callVars, rotateVars, alphaVars, pathsVars, shutdownVars>>

\* The state of the functions a specification does not exercise.
Unused == <<>>
RotateIdle == heap = Unused /\ rotation_matrix = Unused /\ face_in = Unused
AlphaIdle == image = Unused /\ intensity = Unused
PathsIdle == directory = Unused /\ fs = Unused
ShutdownIdle ==
    /\ log_queue = Unused /\ consumer_alive = Unused /\ produced = Unused
    /\ fail_at = Unused /\ calls = Unused /\ sentinel_taken = Unused

(***************************************************************************)
(* Bounds of the model.                                                    *)
(***************************************************************************)
MaxCoord == 1       \* x, y of an input box are in 0..MaxCoord
MaxSize == 2        \* w, h of an input box are in 0..MaxSize
MaxPts == 2         \* an input landmarks list has at most MaxPts points

(***************************************************************************)
(* Helpers.                                                                *)
(***************************************************************************)
Range(s) == {s[i] : i \in DOMAIN s}
SetMin(S) == CHOOSE m \in S : \A n \in S : m <= n
SetMax(S) == CHOOSE m \in S : \A n \in S : m >= n
SeqsUpTo(S, n) == UNION {[1..k -> S] : k \in 0..n}

NoValue == [kind |-> "none"]
Returned(ref) == [kind |-> "return", ref |-> ref]          \* an object, by address
ReturnedValue(v) == [kind |-> "return", value |-> v]       \* a value
Raised(exc) == [kind |-> "raise", exc |-> exc]

(***************************************************************************)
(* rotate_landmarks                                                        *)
(***************************************************************************)
ArgAddr == 1        \* where the caller's face object lives
NewAddr == 2        \* the next free address: where a new object is allocated
Free == [type |-> "free"]

BoxKeys == {"x", "y", "w", "h"}
AllKeys == BoxKeys \cup {"r", "landmarksXY"}

\* dict.get(key, default): the stored value when the key is present.
DictGet(face, key, stored, default) ==
    IF key \in face.keys THEN stored ELSE default

\* Lines 126-151: the four corners of the box, clockwise from (x, y).
bounding_box(face) ==
    CASE face.type = "DetectedFace" ->
            << <<face.x, face.y>>,
               <<face.x + face.w, face.y>>,
               <<face.x + face.w, face.y + face.h>>,
               <<face.x, face.y + face.h>> >>
      [] face.type = "dict" ->
            LET x == DictGet(face, "x", face.x, 0)
                y == DictGet(face, "y", face.y, 0)
                w == DictGet(face, "w", face.w, 0)
                h == DictGet(face, "h", face.h, 0)
            IN  << <<x, y>>, <<x + w, y>>, <<x + w, y + h>>, <<x, y + h>> >>
      [] face.type = "rectangle" ->
            << <<face.left, face.top>>,
               <<face.right, face.top>>,
               <<face.right, face.bottom>>,
               <<face.left, face.bottom>> >>

\* Lines 131, 141, 149: the landmarks the record carries.
landmarks(face) ==
    CASE face.type = "DetectedFace" -> face.landmarksXY
      [] face.type = "dict" ->
            DictGet(face, "landmarksXY", face.landmarksXY, <<>>)
      [] face.type = "rectangle" -> <<>>

SupportedTypes == {"DetectedFace", "dict", "rectangle"}

Det(M) == M.m00 * M.m11 - M.m01 * M.m10

\* Mutant: the matrix is applied as given, not inverted.
invertAffineTransform_skipped(M) ==
    [i00 |-> M.m00, i01 |-> M.m01, i02 |-> M.m02,
     i10 |-> M.m10, i11 |-> M.m11, i12 |-> M.m12, den |-> 1]

\* cv2.invertAffineTransform: the inverse as integer numerators over the
\* determinant; a singular matrix gives the zero matrix (D = 0 in OpenCV).

invertAffineTransform(M) ==
    LET D == Det(M)
    IN  IF D = 0
        THEN [i00 |-> 0, i01 |-> 0, i02 |-> 0,
              i10 |-> 0, i11 |-> 0, i12 |-> 0, den |-> 1]
        ELSE [i00 |-> M.m11, i01 |-> -M.m01,
              i02 |-> M.m01 * M.m12 - M.m11 * M.m02,
              i10 |-> -M.m10, i11 |-> M.m00,
              i12 |-> M.m10 * M.m02 - M.m00 * M.m12,
              den |-> D]

\* cvRound(n / d): nearest integer, ties to even.
cvRound(n, d) ==
    LET nn == IF d < 0 THEN -n ELSE n
        dd == IF d < 0 THEN -d ELSE d
        q == nn \div dd
        r == nn % dd
    IN  IF 2 * r < dd THEN q
        ELSE IF 2 * r > dd THEN q + 1
        ELSE IF q % 2 = 0 THEN q ELSE q + 1

\* cv2.transform on one int32 point.
TransformPoint(p, inv) ==
    << cvRound(inv.i00 * p[1] + inv.i01 * p[2] + inv.i02, inv.den),
       cvRound(inv.i10 * p[1] + inv.i11 * p[2] + inv.i12, inv.den) >>

\* Lines 161-164: the (1, n, 2) array of transformed points.
transform(points, inv) ==
    [i \in 1..Len(points) |-> TransformPoint(points[i], inv)]

\* Line 165: numpy's squeeze() drops every axis of length 1, so one point
\* alone becomes a 1-d array of two scalars, not a list of one point.
squeeze(transformed) ==
    IF Len(transformed) = 1
    THEN [ndim |-> 1, rows |-> transformed]
    ELSE [ndim |-> 2, rows |-> transformed]

\* Lines 157-165: the items that are not empty, transformed, in order.
rotated_items(face, M) ==
    LET inv == invertAffineTransform(M)
        items == << bounding_box(face), landmarks(face) >>
        kept == SelectSeq(items, LAMBDA item : item # <<>>)
    IN  [i \in 1..Len(kept) |-> squeeze(transform(kept[i], inv))]

\* Lines 169-172 with 175-178: x, y, w, h from the transformed corners.
pt_x(rotated) == SetMin({p[1] : p \in Range(rotated[1].rows)})
pt_y(rotated) == SetMin({p[2] : p \in Range(rotated[1].rows)})
pt_x1(rotated) == SetMax({p[1] : p \in Range(rotated[1].rows)})
pt_y1(rotated) == SetMax({p[2] : p \in Range(rotated[1].rows)})

new_w(rotated) == pt_x1(rotated) - pt_x(rotated)
new_h(rotated) == pt_y1(rotated) - pt_y(rotated)

\* Lines 175-179 and 184-188: the box and r = 0 stored into the record.
store_box(face, rotated) ==
    IF face.type = "dict"
    THEN [face EXCEPT !.x = pt_x(rotated), !.y = pt_y(rotated),
                      !.w = new_w(rotated), !.h = new_h(rotated),
                      !.r = 0, !.keys = @ \cup BoxKeys \cup {"r"}]
    ELSE [face EXCEPT !.x = pt_x(rotated), !.y = pt_y(rotated),
                      !.w = new_w(rotated), !.h = new_h(rotated),
                      !.r = 0]

\* Lines 182 and 191: the transformed landmarks stored into the record.
store_landmarks(face, rows) ==
    IF face.type = "dict"
    THEN [face EXCEPT !.landmarksXY = rows, !.keys = @ \cup {"landmarksXY"}]
    ELSE [face EXCEPT !.landmarksXY = rows]

\* Lines 193-194: dlib.rectangle(left, top, right, bottom).
new_rectangle(rotated) ==
    [type |-> "rectangle", left |-> pt_x(rotated), top |-> pt_y(rotated),
     right |-> pt_x1(rotated), bottom |-> pt_y1(rotated)]

\* Mutant: the record is copied first and the copy is written.
write_target_copy(arg) == NewAddr

\* Which object the DetectedFace / dict branches write to (lines 175, 184):
\* the caller's own object; no copy is made.
write_target(arg) == arg

\* Mutant: an unsupported argument is handed back unchanged.
unsupported_face_returned(h, arg) == [heap |-> h, outcome |-> Returned(arg)]

\* Lines 150-151: no supported type; nothing was written before the raise.
unsupported_face(h, arg) == [heap |-> h, outcome |-> Raised("ValueError")]

\* The whole call: the heap after it and how it ended.
rotate_landmarks(h, arg, M) ==
    LET face == h[arg]
    IN  IF face.type \notin SupportedTypes
        THEN unsupported_face(h, arg)
        ELSE
        LET rotated == rotated_items(face, M)
        IN  IF face.type = "rectangle"
            THEN [heap |-> [h EXCEPT ![NewAddr] = new_rectangle(rotated)],
                  outcome |-> Returned(NewAddr)]                     \* 193-198
            ELSE
            LET tgt == write_target(arg)
                boxed == store_box(face, rotated)
                h1 == [h EXCEPT ![tgt] = boxed]
            IN  IF Len(rotated) > 1
                THEN IF rotated[2].ndim = 1
                     \* line 181 / 190: tuple(point) of a scalar
                     THEN [heap |-> h1, outcome |-> Raised("TypeError")]
                     ELSE [heap |-> [h EXCEPT ![tgt] =
                                        store_landmarks(boxed, rotated[2].rows)],
                           outcome |-> Returned(tgt)]
                \* line 197 reads rotated_landmarks, which was never bound
                ELSE [heap |-> h1, outcome |-> Raised("UnboundLocalError")]

(***************************************************************************)
(* Inputs of rotate_landmarks.                                             *)
(***************************************************************************)
Mat(a, b, tx, c, d, ty) ==
    [m00 |-> a, m01 |-> b, m02 |-> tx, m10 |-> c, m11 |-> d, m12 |-> ty]

\* The linear parts drawn: identity, the three right-angle rotations (as
\* cv2.getRotationMatrix2D builds them: [cos sin; -sin cos]), two rotations
\* by 45 degrees scaled by sqrt 2, a shear, a mirror and a singular matrix.
Identity2 == <<1, 0, 0, 1>>
Rot90 == <<0, 1, -1, 0>>
Rot180 == <<-1, 0, 0, -1>>
Rot270 == <<0, -1, 1, 0>>
LinearParts ==
    {Identity2, Rot90, Rot180, Rot270,
     <<1, 1, -1, 1>>, <<1, -1, 1, 1>>, <<1, 1, 0, 1>>, <<-1, 0, 0, 1>>,
     <<1, 1, 1, 1>>}
Translations == {<<0, 0>>, <<1, 2>>, <<2, 1>>}
Matrices ==
    {Mat(l[1], l[2], t[1], l[3], l[4], t[2]) : l \in LinearParts, t \in Translations}

LandmarkPts == {<<0, 0>>, <<2, 1>>}
LandmarkLists == SeqsUpTo(LandmarkPts, MaxPts)
Angles == {90}
Coords == 0..MaxCoord
Sizes == 0..MaxSize

DetectedFaces ==
    {[type |-> "DetectedFace", x |-> x, y |-> y, w |-> w, h |-> h,
      r |-> r, landmarksXY |-> lm] :
        x \in Coords, y \in Coords, w \in Sizes, h \in Sizes,
        r \in Angles, lm \in LandmarkLists}

\* An alignments dict; a key that is absent holds no value (0 or <<>> here).
KeySets == {AllKeys, BoxKeys}
Dicts ==
    {[type |-> "dict", keys |-> ks, x |-> x, y |-> y, w |-> w, h |-> h,
      r |-> IF "r" \in ks THEN 90 ELSE 0,
      landmarksXY |-> IF "landmarksXY" \in ks THEN lm ELSE <<>>] :
        ks \in KeySets, x \in Coords, y \in Coords, w \in Sizes, h \in Sizes,
        lm \in LandmarkLists}

Rectangles ==
    {[type |-> "rectangle", left |-> x, top |-> y, right |-> x + w,
      bottom |-> y + h] :
        x \in Coords, y \in Coords, w \in Sizes, h \in Sizes}

\* Arguments of no supported type.
Others ==
    {[type |-> "tuple", items |-> <<x, y, w, h>>] :
        x \in Coords, y \in Coords, w \in Sizes, h \in Sizes}
    \cup {[type |-> "NoneType"]}

Faces == DetectedFaces \cup Dicts \cup Rectangles \cup Others

RotateInit ==
    /\ pc = "rotate_landmarks"
    /\ \E f \in Faces :
        /\ heap = [a \in {ArgAddr, NewAddr} |-> IF a = ArgAddr THEN f ELSE Free]
        /\ face_in = f
    /\ rotation_matrix \in Matrices
    /\ outcome = NoValue
    /\ AlphaIdle /\ PathsIdle /\ ShutdownIdle

RotateLandmarks ==
    /\ pc = "rotate_landmarks"
    /\ LET res == rotate_landmarks(heap, ArgAddr, rotation_matrix)
       IN  /\ heap' = res.heap
           /\ outcome' = res.outcome
    /\ pc' = "rotate_landmarks_done"
    /\ UNCHANGED <<rotation_matrix, face_in, alphaVars, pathsVars, shutdownVars>>

RotateNext == RotateLandmarks

RotateSpec == RotateInit /\ [][RotateNext]_vars

(***************************************************************************)
(* add_alpha_channel                                                       *)
(***************************************************************************)
IntensityMin == 0
IntensityMax == 100
AlphaScale == 255       \* 255.0 / 100.0 is AlphaScale / Percent
Percent == 100
IntensityMargin == 1    \* intensities are drawn this far outside the valid range

Abs(v) == IF v < 0 THEN -v ELSE v

\* astype("float32") of an integer: exact up to 2^24; from there to 2^25 a
\* float32 holds the even numbers only, and a tie goes to the even mantissa.
Float32Exact == 2 ^ 24
Float32(v) ==
    IF Abs(v) <= Float32Exact \/ v % 2 = 0 THEN v
    ELSE IF (v - 1) % 4 = 0 THEN v - 1 ELSE v + 1

\* astype(d_type) of the float n / d to an integer type: towards zero.
Truncate(n, d) == IF n >= 0 THEN n \div d ELSE -((-n) \div d)

\* Lines 105, 111 and 116: the value every pixel of ch_a holds after the
\* cast back.  (In float32 the product is the nearest float to
\* 255 * intensity / 100, which truncates to the same integer as the exact
\* fraction for every intensity in 0..100.)
alpha_plane_value(inten) == Truncate(AlphaScale * inten, Percent)

\* Lines 107-116: split, add ch_a, merge, cast back.
merge_alpha(img, inten) ==
    [dtype |-> img.dtype,
     pixels |-> [i \in 1..Len(img.pixels) |->
                    << Truncate(Float32(img.pixels[i][1]), 1),
                       Truncate(Float32(img.pixels[i][2]), 1),
                       Truncate(Float32(img.pixels[i][3]), 1),
                       alpha_plane_value(inten) >>]]

add_alpha_channel(img, inten) ==
    IF ~(IntensityMin <= inten /\ inten <= IntensityMax)
    THEN Raised("AssertionError")                                   \* line 104
    ELSE ReturnedValue(merge_alpha(img, inten))

MaxPixels == 2
PixelsOf(dtype) ==
    IF dtype = "uint8"
    THEN {<<0, 128, 255>>, <<255, 255, 0>>}
    ELSE {<<0, 128, 255>>, <<Float32Exact + 1, -3, Float32Exact + 3>>}
Images ==
    {[dtype |-> t, pixels |-> px] :
        t \in {"uint8"}, px \in SeqsUpTo(PixelsOf("uint8"), MaxPixels) \ {<<>>}}
    \cup
    {[dtype |-> t, pixels |-> px] :
        t \in {"int32"}, px \in SeqsUpTo(PixelsOf("int32"), MaxPixels) \ {<<>>}}
Intensities == (IntensityMin - IntensityMargin)..(IntensityMax + IntensityMargin)

AlphaInit ==
    /\ pc = "add_alpha_channel"
    /\ image \in Images
    /\ intensity \in Intensities
    /\ outcome = NoValue
    /\ RotateIdle /\ PathsIdle /\ ShutdownIdle

AddAlphaChannel ==
    /\ pc = "add_alpha_channel"
    /\ outcome' = add_alpha_channel(image, intensity)
    /\ pc' = "add_alpha_channel_done"
    /\ UNCHANGED <<rotateVars, alphaVars, pathsVars, shutdownVars>>

AlphaNext == AddAlphaChannel

AlphaSpec == AlphaInit /\ [][AlphaNext]_vars

(***************************************************************************)
(* get_folder and get_image_paths                                          *)
(*                                                                         *)
(* A name is a sequence of characters.  The file system holds the node at  *)
(* the requested path (absent, a directory with its entries, or a regular  *)
(* file) and whether the parent directory exists.                          *)
(***************************************************************************)
_image_extensions ==
    << <<".", "b", "m", "p">>, <<".", "j", "p", "e", "g">>, <<".", "j", "p", "g">>,
       <<".", "p", "n", "g">>, <<".", "t", "i", "f">>, <<".", "t", "i", "f", "f">> >>

Ascii ==
    [c \in {".", "B", "G", "J", "N", "P", "a", "b", "c", "d", "e", "f", "g",
            "h", "i", "j", "m", "n", "p", "t", "x"} |->
        CASE c = "." -> 46 [] c = "B" -> 66 [] c = "G" -> 71 [] c = "J" -> 74
          [] c = "N" -> 78 [] c = "P" -> 80 [] c = "a" -> 97 [] c = "b" -> 98
          [] c = "c" -> 99 [] c = "d" -> 100 [] c = "e" -> 101 [] c = "f" -> 102
          [] c = "g" -> 103 [] c = "h" -> 104 [] c = "i" -> 105 [] c = "j" -> 106
          [] c = "m" -> 109 [] c = "n" -> 110 [] c = "p" -> 112 [] c = "t" -> 116
          [] c = "x" -> 120]

\* str.lower() on one character.
LowerChar(c) ==
    IF Ascii[c] >= 65 /\ Ascii[c] <= 90
    THEN CHOOSE d \in DOMAIN Ascii : Ascii[d] = Ascii[c] + 32
    ELSE c
lower(name) == [i \in 1..Len(name) |-> LowerChar(name[i])]

\* str.endswith(ext)
endswith(name, ext) ==
    /\ Len(ext) <= Len(name)
    /\ SubSeq(name, Len(name) - Len(ext) + 1, Len(name)) = ext

\* Lines 52-53: any([chkfile.name.lower().endswith(ext) for ext in ...])
is_image_name(name) ==
    \E k \in 1..Len(_image_extensions) : endswith(lower(name), _image_extensions[k])

\* Python's order on str: by code point, a proper prefix first.
NameLess(a, b) ==
    \E k \in 1..(Len(a) + 1) :
        /\ \A j \in 1..(k - 1) : j <= Len(b) /\ a[j] = b[j]
        /\ k <= Len(b)
        /\ (k > Len(a) \/ Ascii[a[k]] < Ascii[b[k]])

\* Line 47: sorted(os.scandir(directory), key=lambda x: x.name)
RECURSIVE sorted_by_name(_)
sorted_by_name(entries) ==
    IF entries = {} THEN <<>>
    ELSE LET first == CHOOSE e \in entries :
                        \A o \in entries \ {e} : NameLess(e.name, o.name)
         IN  <<first>> \o sorted_by_name(entries \ {first})

\* Lines 51-53: what decides that a scanned entry is listed.
keep_entry(chkfile) == is_image_name(chkfile.name)

\* Lines 29-35: Path(path).mkdir(parents=True, exist_ok=True)
get_folder(f) == [node |-> "dir", entries |-> {}, parent |-> "dir"]

\* Lines 38-58: the file system after the call and how the call ended.
get_image_paths(f, dir) ==
    LET f1 == IF f.node = "absent" THEN get_folder(f) ELSE f       \* 43-45
    IN  IF f1.node # "dir"
        THEN [fs |-> f1, outcome |-> Raised("NotADirectoryError")]  \* os.scandir
        ELSE LET dir_scanned == sorted_by_name(f1.entries)
                 kept == SelectSeq(dir_scanned, keep_entry)
             IN  [fs |-> f1,
                  outcome |-> ReturnedValue(
                      [i \in 1..Len(kept) |->
                          [dir |-> dir, name |-> kept[i].name]])]

MaxEntries == 3
FileNames ==
    { <<"a", ".", "p", "n", "g">>, <<"B", ".", "P", "N", "G">>,
      <<"c", ".", "J", "p", "g">>, <<"d", ".", "t", "i", "f", "f">>,
      <<"e", ".", "t", "x", "t">>, <<"p", "n", "g">>, <<".", "b", "m", "p">>,
      <<"f", ".", "j", "p", "e", "g">>, <<"g", ".", "t", "i", "f">>,
      <<"h", ".", "p", "n", "g", "x">> }
Listings ==
    UNION {{ {[name |-> n, is_file |-> kind[n]] : n \in names} :
                kind \in [names -> BOOLEAN] } :
            names \in {ns \in SUBSET FileNames : Cardinality(ns) <= MaxEntries}}
FileSystems ==
    {[node |-> "dir", entries |-> es, parent |-> "dir"] : es \in Listings}
    \cup {[node |-> "absent", entries |-> {}, parent |-> pa] :
            pa \in {"dir", "absent"}}
    \cup {[node |-> "file", entries |-> {}, parent |-> "dir"]}
Directories == {<<"faces">>, <<"out", "faces">>}

PathsInit ==
    /\ pc = "get_image_paths"
    /\ directory \in Directories
    /\ fs \in FileSystems
    /\ outcome = NoValue
    /\ RotateIdle /\ AlphaIdle /\ ShutdownIdle

GetImagePaths ==
    /\ pc = "get_image_paths"
    /\ LET res == get_image_paths(fs, directory)
       IN  /\ fs' = res.fs
           /\ outcome' = res.outcome
    /\ pc' = "get_image_paths_done"
    /\ UNCHANGED <<directory, rotateVars, alphaVars, shutdownVars>>

PathsNext == GetImagePaths

PathsSpec == PathsInit /\ [][PathsNext]_vars

(***************************************************************************)
(* safe_shutdown                                                           *)
(*                                                                         *)
(* The function runs statement by statement beside the rest of the         *)
(* program: a consumer of the log queue, which may stop at any time, and   *)
(* threads that still put log records.  fail_at names the collaborator     *)
(* call that raises, if one does.  A poll that finds the queue not empty   *)
(* changes nothing and is no step.                                         *)
(***************************************************************************)
MaxLog == 2         \* log records the rest of the program still puts

Statements ==
    <<"terminate_queues", "terminate_processes", "put", "poll", "manager_shutdown">>

\* Mutant: the manager is shut down right after the sentinel is put.
after_no_wait(stmt) ==
    CASE stmt = "terminate_queues" -> "terminate_processes"
      [] stmt = "terminate_processes" -> "put"
      [] stmt = "put" -> "manager_shutdown"
      [] stmt = "manager_shutdown" -> "poll"
      [] stmt = "poll" -> "returned"

\* Lines 215-221: the statement that follows each statement.
after(stmt) ==
    CASE stmt = "terminate_queues" -> "terminate_processes"
      [] stmt = "terminate_processes" -> "put"
      [] stmt = "put" -> "poll"
      [] stmt = "poll" -> "manager_shutdown"
      [] stmt = "manager_shutdown" -> "returned"

\* One collaborator call: it is recorded, with what a poll saw, and either
\* returns, and the next statement follows, or raises out of safe_shutdown.
Call(stmt) ==
    /\ pc = stmt
    /\ calls' = Append(calls,
            [call |-> stmt,
             result |-> IF fail_at = stmt THEN "raise" ELSE "ok",
             saw |-> IF stmt # "poll" \/ fail_at = stmt THEN "-"
                     ELSE IF log_queue = <<>> THEN "empty" ELSE "not empty"])
    /\ pc' = IF fail_at = stmt THEN "raised" ELSE after(stmt)

\* Line 215
TerminateQueues ==
    /\ Call("terminate_queues")
    /\ UNCHANGED <<outcome, log_queue, consumer_alive, produced, fail_at,
                   sentinel_taken, rotateVars, alphaVars, pathsVars>>

\* Line 216
TerminateProcesses ==
    /\ Call("terminate_processes")
    /\ UNCHANGED <<outcome, log_queue, consumer_alive, produced, fail_at,
                   sentinel_taken, rotateVars, alphaVars, pathsVars>>

\* Line 218
PutSentinel ==
    /\ Call("put")
    /\ log_queue' = IF fail_at = "put" THEN log_queue
                    ELSE Append(log_queue, "None")
    /\ UNCHANGED <<outcome, consumer_alive, produced, fail_at, sentinel_taken,
                   rotateVars, alphaVars, pathsVars>>

\* Mutant: the wait gives up after a while, whatever the queue holds.
PollLogQueue_timeout ==
    /\ Call("poll")
    /\ UNCHANGED <<outcome, log_queue, consumer_alive, produced, fail_at,
                   sentinel_taken, rotateVars, alphaVars, pathsVars>>

\* Lines 219-220: the loop is left when empty() answers True (or raises).
PollLogQueue ==
    /\ fail_at = "poll" \/ log_queue = <<>>
    /\ Call("poll")
    /\ UNCHANGED <<outcome, log_queue, consumer_alive, produced, fail_at,
                   sentinel_taken, rotateVars, alphaVars, pathsVars>>

\* Line 221
ManagerShutdown ==
    /\ Call("manager_shutdown")
    /\ UNCHANGED <<outcome, log_queue, consumer_alive, produced, fail_at,
                   sentinel_taken, rotateVars, alphaVars, pathsVars>>

\* safe_shutdown has been called (it may have ended since).
InShutdown == pc \in Range(Statements) \cup {"returned", "raised"}

\* The consumer of the log queue takes the oldest item.
Consume ==
    /\ InShutdown
    /\ consumer_alive
    /\ log_queue # <<>>
    /\ log_queue' = Tail(log_queue)
    /\ sentinel_taken' = (sentinel_taken \/ Head(log_queue) = "None")
    /\ UNCHANGED <<callVars, consumer_alive, produced, fail_at, calls,
                   rotateVars, alphaVars, pathsVars>>

\* The consumer stops (it was terminated, or it ended).
ConsumerStops ==
    /\ InShutdown
    /\ consumer_alive
    /\ consumer_alive' = FALSE
    /\ UNCHANGED <<callVars, log_queue, produced, fail_at, calls,
                   sentinel_taken, rotateVars, alphaVars, pathsVars>>

\* Some thread of the program logs a record.
Produce ==
    /\ InShutdown
    /\ produced < MaxLog
    /\ produced' = produced + 1
    /\ log_queue' = Append(log_queue, "record")
    /\ UNCHANGED <<callVars, consumer_alive, fail_at, calls, sentinel_taken,
                   rotateVars, alphaVars, pathsVars>>

ShutdownInit ==
    /\ pc = "terminate_queues"
    /\ outcome = NoValue
    /\ log_queue = <<>>
    /\ consumer_alive \in BOOLEAN
    /\ produced = 0
    /\ fail_at \in {"none"} \cup Range(Statements)
    /\ calls = <<>>
    /\ sentinel_taken = FALSE
    /\ RotateIdle /\ AlphaIdle /\ PathsIdle

SafeShutdownStep ==
    \/ TerminateQueues
    \/ TerminateProcesses
    \/ PutSentinel
    \/ PollLogQueue
    \/ ManagerShutdown

ShutdownNext == SafeShutdownStep \/ Consume \/ ConsumerStops \/ Produce

ShutdownSpec == ShutdownInit /\ [][ShutdownNext]_vars

\* The main thread keeps running, and so does the consumer while it lives.
ShutdownFairSpec ==
    /\ ShutdownSpec
    /\ WF_vars(SafeShutdownStep)
    /\ WF_vars(Consume)

(***************************************************************************)
(* The module as a whole: one of the functions is exercised.               *)
(***************************************************************************)
Init == RotateInit \/ AlphaInit \/ PathsInit \/ ShutdownInit
Next == RotateNext \/ AlphaNext \/ PathsNext \/ ShutdownNext
Spec == Init /\ [][Next]_vars

(***************************************************************************)
(* Properties of rotate_landmarks.                                         *)
(***************************************************************************)
Box(x, y, w, h) == [x |-> x, y |-> y, w |-> w, h |-> h]

\* The (x, y, w, h) a record of a supported shape describes; a rectangle's
\* w and h are right - left and bottom - top.
BoxOf(face) ==
    CASE face.type = "DetectedFace" -> Box(face.x, face.y, face.w, face.h)
      [] face.type = "dict" ->
            Box(DictGet(face, "x", face.x, 0), DictGet(face, "y", face.y, 0),
                DictGet(face, "w", face.w, 0), DictGet(face, "h", face.h, 0))
      [] face.type = "rectangle" ->
            Box(face.left, face.top, face.right - face.left,
                face.bottom - face.top)

CornersOf(b) ==
    {<<b.x, b.y>>, <<b.x + b.w, b.y>>, <<b.x + b.w, b.y + b.h>>,
     <<b.x, b.y + b.h>>}

\* b is the smallest axis-aligned rectangle that holds every point of pts.
MinimalEnclosing(b, pts) ==
    /\ \A p \in pts : /\ b.x <= p[1] /\ p[1] <= b.x + b.w
                      /\ b.y <= p[2] /\ p[2] <= b.y + b.h
    /\ \E p \in pts : p[1] = b.x
    /\ \E p \in pts : p[1] = b.x + b.w
    /\ \E p \in pts : p[2] = b.y
    /\ \E p \in pts : p[2] = b.y + b.h

\* The corners of the input box, each moved by the inverse of the matrix.
InverseCorners ==
    {TransformPoint(c, invertAffineTransform(rotation_matrix)) :
        c \in CornersOf(BoxOf(face_in))}

Called == pc = "rotate_landmarks_done"
HasReturned == Called /\ outcome.kind = "return"
Mutable(face) == face.type \in {"DetectedFace", "dict"}
LinearPart(M) == <<M.m00, M.m01, M.m10, M.m11>>

\* How every call ends: ValueError for an unsupported argument; a rectangle
\* always comes back; a DetectedFace or dict comes back only with two or
\* more landmarks, and otherwise the call raises after the box was stored.
RotateOutcome ==
    Called =>
        CASE face_in.type \notin SupportedTypes -> outcome = Raised("ValueError")
          [] face_in.type = "rectangle" -> outcome = Returned(NewAddr)
          [] OTHER ->
                /\ MinimalEnclosing(BoxOf(heap[ArgAddr]), InverseCorners)
                /\ outcome =
                     CASE Len(landmarks(face_in)) = 0 -> Raised("UnboundLocalError")
                       [] Len(landmarks(face_in)) = 1 -> Raised("TypeError")
                       [] OTHER -> Returned(ArgAddr)

\* C1 as claimed: for every record of a supported shape and every invertible
\* matrix, rotate_landmarks returns a record whose box is the minimal
\* axis-aligned rectangle around the four inverse-transformed corners of the
\* input box, with r = 0 for the object and dict shapes.
C1_ReturnsMinimalBox ==
    (Called /\ face_in.type \in SupportedTypes /\ Det(rotation_matrix) # 0) =>
        /\ outcome.kind = "return"
        /\ MinimalEnclosing(BoxOf(heap[outcome.ref]), InverseCorners)
        /\ Mutable(face_in) => heap[outcome.ref].r = 0

Min2(a, b) == IF a <= b THEN a ELSE b
Max2(a, b) == IF a >= b THEN a ELSE b

\* The box rotated forward by an integer matrix: the bound of the images of
\* its corners (x, y), (x + w, y), (x + w, y + h), (x, y + h).
ForwardBox(b, M) ==
    LET fx(px, py) == M.m00 * px + M.m01 * py + M.m02
        fy(px, py) == M.m10 * px + M.m11 * py + M.m12
        x0 == Min2(Min2(fx(b.x, b.y), fx(b.x + b.w, b.y)),
                   Min2(fx(b.x + b.w, b.y + b.h), fx(b.x, b.y + b.h)))
        x1 == Max2(Max2(fx(b.x, b.y), fx(b.x + b.w, b.y)),
                   Max2(fx(b.x + b.w, b.y + b.h), fx(b.x, b.y + b.h)))
        y0 == Min2(Min2(fy(b.x, b.y), fy(b.x + b.w, b.y)),
                   Min2(fy(b.x + b.w, b.y + b.h), fy(b.x, b.y + b.h)))
        y1 == Max2(Max2(fy(b.x, b.y), fy(b.x + b.w, b.y)),
                   Max2(fy(b.x + b.w, b.y + b.h), fy(b.x, b.y + b.h)))
    IN  Box(x0, y0, x1 - x0, y1 - y0)

Boxes == {Box(x, y, w, h) : x \in Coords, y \in Coords, w \in Sizes, h \in Sizes}
RightAngles == {Rot90, Rot180, Rot270}
RightAngleMatrices == {M \in Matrices : LinearPart(M) \in RightAngles}

\* The forward image of every box under every right-angle matrix.
ForwardImage ==
    [M \in RightAngleMatrices |-> [b \in Boxes |-> ForwardBox(b, M)]]

\* The box a call produced: that of the record it returned or, when it
\* raised after storing the box, that of the record it wrote.
ResultBox ==
    IF outcome.kind = "return" THEN BoxOf(heap[outcome.ref])
    ELSE BoxOf(heap[ArgAddr])

\* C2: round trip at right angles. For a rotation matrix M of 90, 180 or 270
\* degrees and an input box that is the forward image under M of a box orig,
\* the box rotate_landmarks produces is exactly orig.
C2_RoundTrip ==
    (Called /\ face_in.type \in SupportedTypes
        /\ rotation_matrix \in RightAngleMatrices) =>
        LET passed == BoxOf(face_in)
            back == ResultBox
        IN  \A orig \in Boxes :
                ForwardImage[rotation_matrix][orig] = passed => back = orig

\* A quarter turn that swaps a 2 x 1 box's sides, and its round trip.
C2_Witness ==
    /\ HasReturned
    /\ LinearPart(rotation_matrix) = Rot90
    /\ \E orig \in Boxes :
        /\ orig.w > 0 /\ orig.h > 0 /\ orig.w # orig.h
        /\ ForwardBox(orig, rotation_matrix) = BoxOf(face_in)
        /\ BoxOf(face_in) # orig
        /\ BoxOf(heap[outcome.ref]) = orig

\* C3 as claimed: with the identity matrix, for every supported shape, with
\* or without landmarks, rotate_landmarks returns a record with the same
\* (x, y, w, h) and r = 0.
C3_IdentityReturnsSameBox ==
    (Called /\ face_in.type \in SupportedTypes
        /\ rotation_matrix = Mat(1, 0, 0, 0, 1, 0)) =>
        /\ outcome.kind = "return"
        /\ BoxOf(heap[outcome.ref]) = BoxOf(face_in)
        /\ Mutable(face_in) => heap[outcome.ref].r = 0

\* C4 as claimed: for a DetectedFace or dict with n >= 0 landmarks (n = 0 and
\* n = 1 included) rotate_landmarks returns normally with n landmarks, the
\* i-th being the i-th input point moved by the inverse matrix.
C4_LandmarksPreserved ==
    (Called /\ Mutable(face_in)) =>
        /\ outcome.kind = "return"
        /\ LET lm_in == landmarks(face_in)
               lm_out == landmarks(heap[outcome.ref])
           IN  /\ Len(lm_out) = Len(lm_in)
               /\ \A i \in 1..Len(lm_in) :
                    lm_out[i] = TransformPoint(lm_in[i],
                                    invertAffineTransform(rotation_matrix))

\* C5: an argument of no supported type always ends in ValueError, nothing
\* is returned, and no object is written or allocated.
C5_UnsupportedRaises ==
    (Called /\ face_in.type \notin SupportedTypes) =>
        /\ outcome = Raised("ValueError")
        /\ heap[ArgAddr] = face_in
        /\ heap[NewAddr] = Free

C5_Witness ==
    /\ Called
    /\ face_in.type = "tuple"
    /\ outcome = Raised("ValueError")
    /\ heap[ArgAddr] = face_in

AlphaCalled == pc = "add_alpha_channel_done"
Opaque == AlphaScale        \* alpha 255: the pixel is fully opaque
Transparent == IntensityMin \* alpha 0: the pixel is fully transparent
AlphaOf(img) == {img.pixels[i][4] : i \in 1..Len(img.pixels)}
BGROf(img) == [i \in 1..Len(img.pixels) |-> SubSeq(img.pixels[i], 1, 3)]

\* C7 as claimed: an intensity outside [0, 100] is rejected with an error
\* and nothing is produced; intensity 0 gives alpha 255 (opaque) in every
\* pixel, intensity 100 gives alpha 0 (transparent) in every pixel, and the
\* B, G and R channels of the result are those of the input.
C7_AlphaOfIntensity ==
    AlphaCalled =>
        IF intensity < 0 \/ intensity > 100
        THEN outcome = Raised("AssertionError")
        ELSE /\ outcome.kind = "return"
             /\ intensity = 0 => AlphaOf(outcome.value) = {Opaque}
             /\ intensity = 100 => AlphaOf(outcome.value) = {Transparent}
             /\ BGROf(outcome.value) = image.pixels

\* What the code does instead, for an image of 8-bit pixels: alpha is
\* 255 * intensity / 100 cut to an integer, so 0 at intensity 0 and 255 at
\* intensity 100; the range check and the B, G, R channels are as claimed.
C7_CodeBehaviour ==
    (AlphaCalled /\ image.dtype = "uint8") =>
        IF intensity < 0 \/ intensity > 100
        THEN outcome = Raised("AssertionError")
        ELSE /\ outcome.kind = "return"
             /\ intensity = 0 => AlphaOf(outcome.value) = {Transparent}
             /\ intensity = 100 => AlphaOf(outcome.value) = {Opaque}
             /\ BGROf(outcome.value) = image.pixels

(***************************************************************************)
(* Properties of get_image_paths.                                          *)
(***************************************************************************)
PathsCalled == pc = "get_image_paths_done"
ListedNames(paths) == [i \in 1..Len(paths) |-> paths[i].name]
Ascending(names) ==
    \A i \in 1..Len(names) : \A j \in 1..Len(names) :
        i < j => NameLess(names[i], names[j])

\* C8 as claimed: the result holds exactly the entries that are files and
\* whose name ends, case-insensitively, with an image extension, in
\* ascending order of name; a directory that does not exist is created and
\* the result is empty.
C8_OnlyImageFiles ==
    (PathsCalled /\ outcome.kind = "return") =>
        LET names == ListedNames(outcome.value)
        IN  /\ Range(names) =
                {e.name : e \in {o \in fs.entries :
                                    o.is_file /\ is_image_name(o.name)}}
            /\ Ascending(names)
            /\ fs.node = "dir"

\* The same without "that are files": what the code returns.
C8_CodeBehaviour ==
    PathsCalled =>
        /\ fs.node = "dir" <=> outcome.kind = "return"
        /\ outcome.kind = "return" =>
            LET names == ListedNames(outcome.value)
            IN  /\ Range(names) =
                    {e.name : e \in {o \in fs.entries : is_image_name(o.name)}}
                /\ Ascending(names)
                /\ \A i \in 1..Len(names) : outcome.value[i].dir = directory

(***************************************************************************)
(* Properties of safe_shutdown.                                            *)
(***************************************************************************)
CallNames == [i \in 1..Len(calls) |-> calls[i].call]
IsPrefix(a, b) == Len(a) <= Len(b) /\ SubSeq(b, 1, Len(a)) = a
Invoked(stmt) == \E i \in 1..Len(calls) : calls[i].call = stmt

\* C9: the collaborator calls are made in the fixed order terminate_queues,
\* terminate_processes, put(None), the poll that sees the queue empty,
\* manager.shutdown; the manager is never shut down before the sentinel was
\* put and the queue was seen empty; a call that raises is the last call.
C9_FixedOrder ==
    InShutdown =>
        /\ IsPrefix(CallNames, Statements)
        /\ \A i \in 1..Len(calls) : calls[i].result = "raise" => i = Len(calls)
        /\ Invoked("manager_shutdown") =>
            \E i, j \in 1..Len(calls) :
                /\ i < j
                /\ calls[i] = [call |-> "put", result |-> "ok", saw |-> "-"]
                /\ calls[j] = [call |-> "poll", result |-> "ok", saw |-> "empty"]
                /\ \A k \in 1..Len(calls) :
                        calls[k].call = "manager_shutdown" => k > j

C9_Witness ==
    /\ pc = "returned"
    /\ CallNames = Statements
    /\ produced > 0
    /\ sentinel_taken

ReachedShutdown == pc = "manager_shutdown" \/ Invoked("manager_shutdown")

Waiting == pc = "poll" /\ fail_at # "poll"

\* C10: safe_shutdown gets to manager.shutdown() only after a consumer has
\* taken every item off the log queue, the None sentinel included; while
\* the queue holds an item and no consumer is alive it stays in the wait;
\* and, the main thread and a live consumer being scheduled, a wait (that
\* empty() does not raise out of) ends at manager.shutdown() once the queue
\* is drained, and so whenever the consumer does not stop.
C10_WaitsForConsumer ==
    /\ [](ReachedShutdown => sentinel_taken)
    /\ [][(Waiting /\ ~consumer_alive /\ log_queue # <<>>) => pc' = "poll"]_vars
    /\ (Waiting /\ log_queue = <<>>) ~> (ReachedShutdown \/ log_queue # <<>>)
    /\ Waiting ~> (ReachedShutdown \/ ~consumer_alive)

C10_Witness ==
    /\ pc = "returned"
    /\ consumer_alive
    /\ sentinel_taken
    /\ produced = MaxLog
    /\ log_queue = <<>>

=============================================================================
